---- MODULE Spec2Model ----
(***************************************************************************)
(* Trust & verification engine of med-verify-scan: the seller lifecycle    *)
(* (routes/admin_routes.py), key generation and credential issuance        *)
(* (routes/seller_routes.py), the revocation registry and the tables       *)
(* (database/models.py) and the scan pipeline (routes/scan_routes.py).     *)
(*                                                                         *)
(* Every execute_query call commits on its own (database/__init__.py), so  *)
(* a handler that reads a seller row and later writes it is modelled as    *)
(* one step per committed statement: the read (with the handler's checks)  *)
(* puts the request in flight, the following steps are its writes.         *)
(* Handlers whose statements are reads followed by at most one insert      *)
(* (medicine catalogue, issue_qr, scan_qr, verify_qr_by_id) are one step.  *)
(***************************************************************************)
EXTENDS Integers, Sequences, FiniteSets, TLC

VARIABLES sellers, revoked_keys, key_files, next_key, medicines, qr_codes,
          scan_logs, reqs, last, workers, signer

vars == <<sellers, revoked_keys, key_files, next_key, medicines, qr_codes,
          scan_logs, reqs, last, workers, signer>>

(* ------------------------------ bounds --------------------------------- *)
MaxSellers == 2
MaxKeys == 2
MaxRevoked == 2
MaxMedicines == 1
MaxQR == 1
MaxScans == 1
MaxInflight == 2
MaxFields == 2

Users == {"u1", "u2"}
SellerIds == 1..MaxSellers
KeyIds == 1..MaxKeys
NoKey == 0
Slots == 1..MaxInflight
Idle ==
    [op |-> "idle", sid |-> 0, user |-> "none", key |-> 0, pc |-> 0,
     remarks |-> FALSE]

(* a row that a SELECT did not find *)
NoRow == [user_id |-> "none", status |-> "none", public_key |-> NoKey]
NoMedicine == [seller_id |-> 0, approval_status |-> "none", expired |-> FALSE]
\* a signature: the key that made it and the payload fields it was made
\* over; key 0 is no signature at all, key -1 bytes that are no signature
NoSig == [key |-> 0, seller_id |-> 0, medicine_id |-> 0]
NoQR == [kind |-> "none", seller_id |-> 0, medicine_id |-> 0,
         signature |-> NoSig]

\* a string value of a payload field, and text that is neither a PEM key
\* nor a base64 signature
Str(n) == [str |-> n]
Malformed == [raw |-> "garbage"]
\* a QRCodeSigner object before __init__ ran, and what was last signed and
\* verified with it
NoSigner ==
    [private_key |-> 0, made |-> 0, op |-> "none", payload |-> <<>>,
     kwargs |-> <<>>, signature |-> Malformed, sign_key |-> 0,
     v_payload |-> <<>>, v_signature |-> Malformed, v_pem |-> Malformed,
     result |-> FALSE]

(* ------------------------------ tables --------------------------------- *)
\* Seller.get_by_id: SELECT * FROM sellers WHERE id = %s
Seller_get_by_id(sid) ==
    IF sid \in DOMAIN sellers THEN sellers[sid] ELSE NoRow

\* Seller.get_by_user_id: SELECT ... WHERE user_id = %s, fetchone() with no
\* ORDER BY: any one of the user's rows.
Seller_get_by_user_id(u) ==
    {sid \in DOMAIN sellers : sellers[sid].user_id = u}

\* Medicine.get_by_id
Medicine_get_by_id(mid) ==
    IF mid \in DOMAIN medicines THEN medicines[mid] ELSE NoMedicine

\* RevokedKeys.is_revoked: SELECT COUNT(*) ... WHERE public_key = %s; > 0
is_revoked(public_key) ==
    \E i \in DOMAIN revoked_keys : revoked_keys[i] = public_key

\* the answer of the request that finished last
Resp(op, sid, code) ==
    [op |-> op, sid |-> sid, code |-> code,
     qr |-> NoQR, result |-> "none", verified |-> FALSE]

\* The state after the schema is created: empty tables, no key files, no
\* request in flight. workers is the number of requests the server runs at
\* once (request-parallel, one thread per request).
InitTables ==
    /\ revoked_keys = <<>>
    /\ key_files = [s \in SellerIds |-> NoKey]
    /\ next_key = 0
    /\ medicines = <<>>
    /\ qr_codes = <<>>
    /\ scan_logs = <<>>
    /\ reqs = [i \in Slots |-> Idle]
    /\ last = Resp("none", 0, 0)
    /\ signer = NoSigner

Init ==
    /\ InitTables
    /\ sellers = <<>>
    /\ workers = 1

(* ------------------------- requests in flight -------------------------- *)
InFlight == {i \in Slots : reqs[i].op # "idle"}

WorkerFree == Cardinality(InFlight) < workers

\* a request can start when a worker is free; it takes the lowest free slot
CanStart(i) ==
    /\ WorkerFree
    /\ reqs[i].op = "idle"
    /\ \A j \in Slots : j < i => reqs[j].op # "idle"

Start(i, op, sid, user, key) ==
    reqs' = [reqs EXCEPT ![i] = [op |-> op, sid |-> sid, user |-> user,
                                 key |-> key, pc |-> 1, remarks |-> FALSE]]

Finish(i) == reqs' = [reqs EXCEPT ![i] = Idle]

CountOp(op) == Cardinality({i \in Slots : reqs[i].op = op})

\* UPDATE sellers SET status = <status> WHERE id = <sid>
SetStatus(sid, status) ==
    sellers' = [sellers EXCEPT ![sid].status = status]

\* The statements of a handler after its read: the UPDATE that sets the
\* status, answered 200 with the updated row.
StatusWrite(i, op, status) ==
    /\ reqs[i].op = op
    /\ reqs[i].pc = 1
    /\ SetStatus(reqs[i].sid, status)
    /\ last' = Resp(op, reqs[i].sid, 200)
    /\ Finish(i)
    /\ UNCHANGED <<revoked_keys, key_files, next_key, medicines, qr_codes,
                   scan_logs, workers>>

\* The read of a handler: answered at once with the code its checks give,
\* or put in flight when they pass (code 0).
ReadStep(i, op, sid, code) ==
    /\ CanStart(i)
    /\ IF code = 0
          THEN /\ Start(i, op, sid, "none", Seller_get_by_id(sid).public_key)
               /\ UNCHANGED last
          ELSE /\ last' = Resp(op, sid, code)
               /\ UNCHANGED reqs
    /\ UNCHANGED <<sellers, revoked_keys, key_files, next_key, medicines,
                   qr_codes, scan_logs, workers>>

(* --------------------- admin_routes.py: lifecycle ---------------------- *)
\* the checks of approve_seller with the 'already approved' test left out
approve_seller_check_no_status(seller) ==
    IF seller = NoRow THEN 404 ELSE 0

\* approve_seller, lines 47-52: 404 when the row is missing, 400 when the
\* status read is 'approved', otherwise go on to the UPDATE.
approve_seller_check(seller) ==
    IF seller = NoRow THEN 404
    ELSE IF seller.status = "approved" THEN 400
    ELSE 0

ApproveRead(i, sid) ==
    ReadStep(i, "approve_seller", sid, approve_seller_check(Seller_get_by_id(sid)))

ApproveWrite(i) == StatusWrite(i, "approve_seller", "approved")

\* reject_seller, lines 79-81: only the existence of the row is checked.
reject_seller_check(seller) ==
    IF seller = NoRow THEN 404 ELSE 0

RejectRead(i, sid) ==
    ReadStep(i, "reject_seller", sid, reject_seller_check(Seller_get_by_id(sid)))

RejectWrite(i) == StatusWrite(i, "reject_seller", "rejected")

\* mark_seller_viewed, lines 105-113
mark_seller_viewed_check(seller) ==
    IF seller = NoRow THEN 404
    ELSE IF seller.status \notin {"pending"} THEN 400
    ELSE 0

MarkViewedRead(i, sid) ==
    ReadStep(i, "mark_seller_viewed", sid,
             mark_seller_viewed_check(Seller_get_by_id(sid)))

MarkViewedWrite(i) == StatusWrite(i, "mark_seller_viewed", "viewed")

\* set_seller_verifying, lines 137-145
set_seller_verifying_check(seller) ==
    IF seller = NoRow THEN 404
    ELSE IF seller.status \notin {"pending", "viewed"} THEN 400
    ELSE 0

SetVerifyingRead(i, sid) ==
    ReadStep(i, "set_seller_verifying", sid,
             set_seller_verifying_check(Seller_get_by_id(sid)))

SetVerifyingWrite(i) == StatusWrite(i, "set_seller_verifying", "verifying")

\* the checks of request_seller_changes with the remarks test left out
request_seller_changes_check_no_remarks(remarks, seller) ==
    IF seller = NoRow THEN 404 ELSE 0

\* request_seller_changes, lines 169-177: empty remarks are refused before
\* the row is read; then only the existence of the row is checked.
request_seller_changes_check(remarks, seller) ==
    IF ~remarks THEN 400
    ELSE IF seller = NoRow THEN 404
    ELSE 0

\* remarks: whether the body carries remarks that are not empty. The
\* handler keeps them for its response (line 194).
RequestChangesRead(i, sid, remarks) ==
    /\ CanStart(i)
    /\ IF request_seller_changes_check(remarks, Seller_get_by_id(sid)) = 0
          THEN /\ reqs' = [reqs EXCEPT ![i] =
                              [op |-> "request_seller_changes", sid |-> sid,
                               user |-> "none",
                               key |-> Seller_get_by_id(sid).public_key,
                               pc |-> 1, remarks |-> remarks]]
               /\ UNCHANGED last
          ELSE /\ last' = Resp("request_seller_changes", sid,
                     request_seller_changes_check(remarks,
                                                  Seller_get_by_id(sid)))
               /\ UNCHANGED reqs
    /\ UNCHANGED <<sellers, revoked_keys, key_files, next_key, medicines,
                   qr_codes, scan_logs, workers>>

RequestChangesWrite(i) ==
    StatusWrite(i, "request_seller_changes", "changes_required")

\* revoke_seller, lines 208-210: only the existence of the row is checked.
revoke_seller_check(seller) ==
    IF seller = NoRow THEN 404 ELSE 0

\* The registry grows with every revocation of a keyed seller: the number
\* of revocations is capped where the request starts.
RevokeRead(i, sid) ==
    /\ Len(revoked_keys) + CountOp("revoke_seller") < MaxRevoked
    /\ ReadStep(i, "revoke_seller", sid, revoke_seller_check(Seller_get_by_id(sid)))

\* revoke_seller, line 213: Seller.update_status(seller_id, 'revoked'),
\* committed on its own. With no public key in the row read at line 208
\* the handler is done (line 216), otherwise the insert follows.
RevokeUpdateStatus(i) ==
    /\ reqs[i].op = "revoke_seller"
    /\ reqs[i].pc = 1
    /\ SetStatus(reqs[i].sid, "revoked")
    /\ IF reqs[i].key = NoKey
          THEN /\ last' = Resp("revoke_seller", reqs[i].sid, 200)
               /\ Finish(i)
          ELSE /\ reqs' = [reqs EXCEPT ![i].pc = 2]
               /\ UNCHANGED last
    /\ UNCHANGED <<revoked_keys, key_files, next_key, medicines, qr_codes,
                   scan_logs, workers>>

\* RevokedKeys.create: INSERT INTO revoked_keys (..., public_key, ...)
RevokedKeys_create(public_key) ==
    revoked_keys' = Append(revoked_keys, public_key)

\* revoke_seller, lines 216-232: the key of the row read at line 208 is
\* inserted into the registry, then 200.
RevokeInsertKey(i) ==
    /\ reqs[i].op = "revoke_seller"
    /\ reqs[i].pc = 2
    /\ RevokedKeys_create(reqs[i].key)
    /\ last' = Resp("revoke_seller", reqs[i].sid, 200)
    /\ Finish(i)
    /\ UNCHANGED <<sellers, key_files, next_key, medicines, qr_codes,
                   scan_logs, workers>>

\* database/__init__.py, lines 75-77, and every handler's except branch: a
\* statement that raises (connection lost, constraint) rolls back alone and
\* the handler answers 500; what it committed before stays.
RequestFails(i) ==
    /\ reqs[i].op # "idle"
    /\ last' = Resp(reqs[i].op, reqs[i].sid, 500)
    /\ Finish(i)
    /\ UNCHANGED <<sellers, revoked_keys, key_files, next_key, medicines,
                   qr_codes, scan_logs, workers>>

(* ------------------- seller_routes.py: application, keys --------------- *)
\* apply_kyc, lines 97-102: refused when the row found for the user is in
\* an active state; lines 116-138: refused when the form is incomplete.
apply_kyc_check(existing, form_ok) ==
    IF existing # NoRow
       /\ existing.status \in {"pending", "viewed", "verifying", "approved"}
      THEN 400
    ELSE IF ~form_ok THEN 400
    ELSE 0

\* the row fetchone() returns for the user, NoRow when there is none
UserRows(u) ==
    IF Seller_get_by_user_id(u) = {}
      THEN {NoRow}
      ELSE {sellers[sid] : sid \in Seller_get_by_user_id(u)}

ApplyRead(i, u, form_ok) ==
    /\ CanStart(i)
    /\ Len(sellers) + CountOp("apply_kyc") < MaxSellers
    /\ \E existing \in UserRows(u) :
          IF apply_kyc_check(existing, form_ok) = 0
            THEN /\ Start(i, "apply_kyc", 0, u, NoKey)
                 /\ UNCHANGED last
            ELSE /\ last' = Resp("apply_kyc", 0,
                                 apply_kyc_check(existing, form_ok))
                 /\ UNCHANGED reqs
    /\ UNCHANGED <<sellers, revoked_keys, key_files, next_key, medicines,
                   qr_codes, scan_logs, workers>>

\* Seller.create: INSERT INTO sellers (...) VALUES (..., 'pending')
Seller_create(u) ==
    sellers' = Append(sellers, [user_id |-> u, status |-> "pending",
                                public_key |-> NoKey])

ApplyCreate(i) ==
    /\ reqs[i].op = "apply_kyc"
    /\ Seller_create(reqs[i].user)
    /\ last' = Resp("apply_kyc", Len(sellers) + 1, 201)
    /\ Finish(i)
    /\ UNCHANGED <<revoked_keys, key_files, next_key, medicines, qr_codes,
                   scan_logs, workers>>

\* the checks of generate_keys with the status test left out
generate_keys_check_no_status(seller) ==
    IF seller = NoRow THEN 404 ELSE 0

\* generate_keys, lines 263-268
generate_keys_check(seller) ==
    IF seller = NoRow THEN 404
    ELSE IF seller.status # "approved" THEN 403
    ELSE 0

\* the seller ids fetchone() may return for the user, 0 when there is none
UserSellerIds(u) ==
    IF Seller_get_by_user_id(u) = {} THEN {0} ELSE Seller_get_by_user_id(u)

GenerateKeysRead(i, u) ==
    /\ CanStart(i)
    /\ next_key + CountOp("generate_keys") < MaxKeys
    /\ \E sid \in UserSellerIds(u) :
          IF generate_keys_check(Seller_get_by_id(sid)) = 0
            THEN /\ Start(i, "generate_keys", sid, u, NoKey)
                 /\ UNCHANGED last
            ELSE /\ last' = Resp("generate_keys", sid,
                                 generate_keys_check(Seller_get_by_id(sid)))
                 /\ UNCHANGED reqs
    /\ UNCHANGED <<sellers, revoked_keys, key_files, next_key, medicines,
                   qr_codes, scan_logs, workers>>

\* Seller.update_public_key: UPDATE sellers SET public_key = %s WHERE id = %s
Seller_update_public_key(sid, public_key) ==
    sellers' = [sellers EXCEPT ![sid].public_key = public_key]

\* generate_keys, lines 270-298: generate_key_pair_files writes a fresh pair
\* to keys/seller_<id>_{private,public}_key.pem (replacing the files there),
\* the public key is read back and stored in the seller's row, then 200.
GenerateKeysWrite(i) ==
    /\ reqs[i].op = "generate_keys"
    /\ next_key' = next_key + 1
    /\ key_files' = [key_files EXCEPT ![reqs[i].sid] = next_key + 1]
    /\ Seller_update_public_key(reqs[i].sid, next_key + 1)
    /\ last' = Resp("generate_keys", reqs[i].sid, 200)
    /\ Finish(i)
    /\ UNCHANGED <<revoked_keys, medicines, qr_codes, scan_logs, workers>>

(* ------------------------- medicine catalogue -------------------------- *)
\* create_medicine, seller_routes.py lines 308-319
create_medicine_check(seller, fields_ok) ==
    IF seller = NoRow \/ seller.status # "approved" THEN 403
    ELSE IF ~fields_ok THEN 400
    ELSE 0

\* Medicine.create: INSERT INTO medicines (seller_id, ..., expiry_date, ...);
\* approval_status is not among the columns and takes the column default.
Medicine_create(seller_id, expired) ==
    medicines' = Append(medicines, [seller_id |-> seller_id,
                                    approval_status |-> "pending",
                                    expired |-> expired])

CreateMedicine(u, fields_ok, expired) ==
    /\ WorkerFree
    /\ Len(medicines) < MaxMedicines
    /\ \E sid \in UserSellerIds(u) :
          IF create_medicine_check(Seller_get_by_id(sid), fields_ok) = 0
            THEN /\ Medicine_create(sid, expired)
                 /\ last' = Resp("create_medicine", sid, 201)
            ELSE /\ last' = Resp("create_medicine", sid,
                     create_medicine_check(Seller_get_by_id(sid), fields_ok))
                 /\ UNCHANGED medicines
    /\ UNCHANGED <<sellers, revoked_keys, key_files, next_key, qr_codes,
                   scan_logs, reqs, workers>>

\* approve_medicine, admin_routes.py lines 362-370
approve_medicine_check(medicine) ==
    IF medicine = NoMedicine THEN 404
    ELSE IF medicine.approval_status = "approved" THEN 400
    ELSE 0

\* Medicine.update_approval_status
Medicine_update_approval_status(mid, status) ==
    medicines' = [medicines EXCEPT ![mid].approval_status = status]

ApproveMedicine(mid) ==
    /\ WorkerFree
    /\ IF approve_medicine_check(Medicine_get_by_id(mid)) = 0
          THEN /\ Medicine_update_approval_status(mid, "approved")
               /\ last' = Resp("approve_medicine", mid, 200)
          ELSE /\ last' = Resp("approve_medicine", mid,
                               approve_medicine_check(Medicine_get_by_id(mid)))
               /\ UNCHANGED medicines
    /\ UNCHANGED <<sellers, revoked_keys, key_files, next_key, qr_codes,
                   scan_logs, reqs, workers>>

\* reject_medicine, admin_routes.py lines 394-399
RejectMedicine(mid) ==
    /\ WorkerFree
    /\ IF Medicine_get_by_id(mid) = NoMedicine
          THEN /\ last' = Resp("reject_medicine", mid, 404)
               /\ UNCHANGED medicines
          ELSE /\ Medicine_update_approval_status(mid, "rejected")
               /\ last' = Resp("reject_medicine", mid, 200)
    /\ UNCHANGED <<sellers, revoked_keys, key_files, next_key, qr_codes,
                   scan_logs, reqs, workers>>

(* ------------------------ credential issuance -------------------------- *)
\* issue_qr, seller_routes.py lines 455-476
issue_qr_check(seller, sid, medicine_id) ==
    IF seller = NoRow \/ seller.status # "approved" THEN 403
    ELSE IF medicine_id = 0 THEN 400
    ELSE IF Medicine_get_by_id(medicine_id) = NoMedicine
            \/ Medicine_get_by_id(medicine_id).seller_id # sid THEN 404
    ELSE 0

\* issue_qr, lines 479-488: the payload, which has no 'signature' field
issue_qr_payload(sid, medicine_id) ==
    [kind |-> "object", seller_id |-> sid, medicine_id |-> medicine_id,
     signature |-> NoSig]

\* QRCode.create: INSERT INTO qr_codes (medicine_id, payload_json, signature, ...)
QRCode_create(medicine_id, payload, signature) ==
    qr_codes' = Append(qr_codes, [medicine_id |-> medicine_id,
                                  payload |-> payload,
                                  signature |-> signature,
                                  revoked |-> FALSE])

\* issue_qr, lines 455-515: the record is stored with signature "" (line
\* 497) and the answer carries the payload alone.
IssueQr(u, medicine_id) ==
    /\ WorkerFree
    /\ Len(qr_codes) < MaxQR
    /\ \E sid \in UserSellerIds(u) :
          IF issue_qr_check(Seller_get_by_id(sid), sid, medicine_id) = 0
            THEN /\ QRCode_create(medicine_id,
                                  issue_qr_payload(sid, medicine_id), NoSig)
                 /\ last' = [Resp("issue_qr", sid, 201) EXCEPT
                               !.qr = issue_qr_payload(sid, medicine_id)]
            ELSE /\ last' = Resp("issue_qr", sid,
                     issue_qr_check(Seller_get_by_id(sid), sid, medicine_id))
                 /\ UNCHANGED qr_codes
    /\ UNCHANGED <<sellers, revoked_keys, key_files, next_key, medicines,
                   scan_logs, reqs, workers>>

(* --------------------------- scan pipeline ----------------------------- *)
\* qr_signer.py, verify_qr_signature / QRCodeSigner.verify_signature: True
\* when the signature decodes and was made by the private key of
\* public_key_pem over the canonical form of exactly this payload; every
\* failure (malformed key or signature, mismatch) is caught and is False.
verify_qr_signature(payload_data, signature, public_key_pem) ==
    /\ signature.key > 0
    /\ signature.key = public_key_pem
    /\ signature.seller_id = payload_data.seller_id
    /\ signature.medicine_id = payload_data.medicine_id

Answer(code, result, verified, logged) ==
    [code |-> code, result |-> result, verified |-> verified,
     logged |-> logged]

\* the classification with the registry lookup left out
scan_qr_status_no_registry(qr, public_key_pem) ==
    IF verify_qr_signature(qr, qr.signature, public_key_pem)
      THEN "verified"
    ELSE "counterfeit"

\* scan_qr, lines 66-72
scan_qr_status(qr, public_key_pem) ==
    IF is_revoked(public_key_pem) THEN "revoked"
    ELSE IF verify_qr_signature(qr, qr.signature, public_key_pem)
      THEN "verified"
    ELSE "counterfeit"

\* the medicine lookup with the test written as "is pending": a rejected
\* medicine passes
scan_qr_unverified_pending_only(qr) ==
    /\ qr.medicine_id # 0
    /\ Medicine_get_by_id(qr.medicine_id) # NoMedicine
    /\ Medicine_get_by_id(qr.medicine_id).approval_status = "pending"

\* scan_qr, lines 74-91: the medicine lookup; TRUE when the handler returns
\* the 'unverified' answer from inside it
scan_qr_unverified(qr) ==
    /\ qr.medicine_id # 0
    /\ Medicine_get_by_id(qr.medicine_id) # NoMedicine
    /\ Medicine_get_by_id(qr.medicine_id).approval_status # "approved"

\* scan_qr, lines 36-137: the answer, and whether ScanLog.create (line 112)
\* was reached
scan_qr_answer(qr) ==
    IF qr.kind = "unparsable" THEN Answer(400, "none", FALSE, FALSE)
    ELSE IF qr.kind = "empty" THEN Answer(400, "none", FALSE, FALSE)
    ELSE IF qr.signature.key = 0 THEN Answer(400, "none", FALSE, FALSE)
    ELSE IF qr.seller_id = 0 THEN Answer(400, "none", FALSE, FALSE)
    ELSE IF Seller_get_by_id(qr.seller_id) = NoRow
      THEN Answer(404, "none", FALSE, FALSE)
    ELSE IF Seller_get_by_id(qr.seller_id).public_key = NoKey
      THEN Answer(400, "none", FALSE, FALSE)
    ELSE IF scan_qr_unverified(qr)
      THEN Answer(200, "unverified", FALSE, FALSE)
    ELSE Answer(200,
                scan_qr_status(qr, Seller_get_by_id(qr.seller_id).public_key),
                scan_qr_status(qr, Seller_get_by_id(qr.seller_id).public_key)
                    = "verified",
                TRUE)

\* ScanLog.create: INSERT INTO scan_logs (..., result, ...)
ScanLog_create(result) ==
    scan_logs' = Append(scan_logs, result)

\* what a client can submit: text that is no JSON, an empty object, or an
\* object naming a seller and a medicine with no signature, with bytes
\* that are no signature, or with a signature made with some key over
\* these fields or over the fields of another medicine
OtherMedicine(m) == IF m = 0 THEN 1 ELSE 0

Signatures(s, m) ==
    {NoSig, [key |-> -1, seller_id |-> 0, medicine_id |-> 0]}
    \cup {[key |-> k, seller_id |-> s, medicine_id |-> mm] :
             k \in KeyIds, mm \in {m, OtherMedicine(m)}}

ScanInputs ==
    {[NoQR EXCEPT !.kind = "unparsable"], [NoQR EXCEPT !.kind = "empty"]}
    \cup UNION {{[kind |-> "object", seller_id |-> s, medicine_id |-> m,
                  signature |-> sig] : sig \in Signatures(s, m)} :
                <<s, m>> \in (0..MaxSellers) \X (0..(MaxMedicines + 1))}

ScanQr(qr) ==
    /\ WorkerFree
    /\ IF scan_qr_answer(qr).logged
          THEN /\ Len(scan_logs) < MaxScans
               /\ ScanLog_create(scan_qr_answer(qr).result)
          ELSE UNCHANGED scan_logs
    /\ last' = [op |-> "scan_qr", sid |-> qr.seller_id,
                code |-> scan_qr_answer(qr).code, qr |-> qr,
                result |-> scan_qr_answer(qr).result,
                verified |-> scan_qr_answer(qr).verified]
    /\ UNCHANGED <<sellers, revoked_keys, key_files, next_key, medicines,
                   qr_codes, reqs, workers>>

\* verify_qr_by_id, lines 149-243
verify_qr_by_id_answer(qr_id) ==
    IF qr_id \notin DOMAIN qr_codes THEN Answer(404, "none", FALSE, FALSE)
    ELSE IF Medicine_get_by_id(qr_codes[qr_id].medicine_id) = NoMedicine
      THEN Answer(404, "none", FALSE, FALSE)
    ELSE IF Seller_get_by_id(
              Medicine_get_by_id(qr_codes[qr_id].medicine_id).seller_id) = NoRow
      THEN Answer(404, "none", FALSE, FALSE)
    ELSE IF Medicine_get_by_id(qr_codes[qr_id].medicine_id).approval_status
              # "approved"
      THEN Answer(200, "unverified", FALSE, FALSE)
    ELSE Answer(200, "verified", TRUE, TRUE)

VerifyQrById(qr_id) ==
    /\ WorkerFree
    /\ IF verify_qr_by_id_answer(qr_id).logged
          THEN /\ Len(scan_logs) < MaxScans
               /\ ScanLog_create(verify_qr_by_id_answer(qr_id).result)
          ELSE UNCHANGED scan_logs
    /\ last' = [op |-> "verify_qr_by_id", sid |-> qr_id,
                code |-> verify_qr_by_id_answer(qr_id).code,
                qr |-> IF qr_id \in DOMAIN qr_codes
                         THEN qr_codes[qr_id].payload ELSE NoQR,
                result |-> verify_qr_by_id_answer(qr_id).result,
                verified |-> verify_qr_by_id_answer(qr_id).verified]
    /\ UNCHANGED <<sellers, revoked_keys, key_files, next_key, medicines,
                   qr_codes, reqs, workers>>

\* QRCodeService.revoke_qr_code, qr_service.py lines 125-131, calling
\* QRCode.revoke: UPDATE qr_codes SET revoked = TRUE, ... WHERE id = %s
QRCode_revoke(qr_id) ==
    qr_codes' = [r \in DOMAIN qr_codes |->
                    IF r = qr_id THEN [qr_codes[r] EXCEPT !.revoked = TRUE]
                    ELSE qr_codes[r]]

RevokeQrCode(qr_id) ==
    /\ WorkerFree
    /\ QRCode_revoke(qr_id)
    /\ last' = Resp("revoke_qr_code", qr_id, 200)
    /\ UNCHANGED <<sellers, revoked_keys, key_files, next_key, medicines,
                   scan_logs, reqs, workers>>

(* ----------------------------- lifecycle ------------------------------- *)
Lifecycle ==
    \E i \in Slots :
        \/ \E u \in Users, form_ok \in BOOLEAN : ApplyRead(i, u, form_ok)
        \/ ApplyCreate(i)
        \/ \E sid \in SellerIds : ApproveRead(i, sid)
        \/ ApproveWrite(i)
        \/ \E sid \in SellerIds : RejectRead(i, sid)
        \/ RejectWrite(i)
        \/ \E sid \in SellerIds : MarkViewedRead(i, sid)
        \/ MarkViewedWrite(i)
        \/ \E sid \in SellerIds : SetVerifyingRead(i, sid)
        \/ SetVerifyingWrite(i)
        \/ \E sid \in SellerIds, remarks \in BOOLEAN :
              RequestChangesRead(i, sid, remarks)
        \/ RequestChangesWrite(i)
        \/ \E sid \in SellerIds : RevokeRead(i, sid)
        \/ RevokeUpdateStatus(i)
        \/ RevokeInsertKey(i)
        \/ \E u \in Users : GenerateKeysRead(i, u)
        \/ GenerateKeysWrite(i)
        \/ RequestFails(i)

\* the handlers of one seller's review: every lifecycle step but the
\* application
Review ==
    \E i \in Slots :
        \/ \E sid \in SellerIds : ApproveRead(i, sid)
        \/ ApproveWrite(i)
        \/ \E sid \in SellerIds : RejectRead(i, sid)
        \/ RejectWrite(i)
        \/ \E sid \in SellerIds : MarkViewedRead(i, sid)
        \/ MarkViewedWrite(i)
        \/ \E sid \in SellerIds : SetVerifyingRead(i, sid)
        \/ SetVerifyingWrite(i)
        \/ \E sid \in SellerIds, remarks \in BOOLEAN :
              RequestChangesRead(i, sid, remarks)
        \/ RequestChangesWrite(i)
        \/ \E sid \in SellerIds : RevokeRead(i, sid)
        \/ RevokeUpdateStatus(i)
        \/ RevokeInsertKey(i)
        \/ \E u \in Users : GenerateKeysRead(i, u)
        \/ GenerateKeysWrite(i)
        \/ RequestFails(i)

Catalogue ==
    \/ \E u \in Users, fields_ok \in BOOLEAN, expired \in BOOLEAN :
          CreateMedicine(u, fields_ok, expired)
    \/ \E mid \in 1..MaxMedicines : ApproveMedicine(mid)
    \/ \E mid \in 1..MaxMedicines : RejectMedicine(mid)

Scanning ==
    \/ \E u \in Users, m \in 0..(MaxMedicines + 1) : IssueQr(u, m)
    \/ \E qr \in ScanInputs : ScanQr(qr)
    \/ \E qr_id \in 1..MaxQR : VerifyQrById(qr_id)

\* Every handler, one request at a time, from the empty tables.
Next == Lifecycle /\ UNCHANGED signer

Spec == Init /\ [][Next]_vars

\* One seller under review: the state after user u1 applied (apply_kyc
\* answered 201), with MaxInflight requests running at once.
InitReview ==
    /\ InitTables
    /\ sellers = <<[user_id |-> "u1", status |-> "pending",
                    public_key |-> NoKey]>>
    /\ workers = MaxInflight

NextReview == Review /\ UNCHANGED signer

SpecConcurrent == InitReview /\ [][NextReview]_vars

\* One seller, its medicines and credentials, and the scans of them, one
\* request at a time.
InitScan ==
    /\ InitTables
    /\ sellers = <<[user_id |-> "u1", status |-> "pending",
                    public_key |-> NoKey]>>
    /\ workers = 1

NextScan == (Review \/ Catalogue \/ Scanning) /\ UNCHANGED signer

SpecScan == InitScan /\ [][NextScan]_vars

\* Two approved sellers, each of its own user (both applications answered
\* 201 and both were approved): their keys, medicines and credentials, and
\* the scans of them, and the revocation of single credentials, one request
\* at a time.
InitOwners ==
    /\ InitTables
    /\ sellers = <<[user_id |-> "u1", status |-> "approved",
                    public_key |-> NoKey],
                   [user_id |-> "u2", status |-> "approved",
                    public_key |-> NoKey]>>
    /\ workers = 1

Keys ==
    \E i \in Slots :
        \/ \E u \in Users : GenerateKeysRead(i, u)
        \/ GenerateKeysWrite(i)
        \/ RequestFails(i)

Revocation == \E qr_id \in 1..MaxQR : RevokeQrCode(qr_id)

NextOwners ==
    (Keys \/ Catalogue \/ Scanning \/ Revocation) /\ UNCHANGED signer

SpecOwners == InitOwners /\ [][NextOwners]_vars

(* ------------------------- qr_signer.py -------------------------------- *)
\* A payload is a Python dict: its items in insertion order, keys distinct.
DictKeys(d) == {d[i][1] : i \in DOMAIN d}

DictGet(d, k) == d[CHOOSE i \in DOMAIN d : d[i][1] = k][2]

\* d[k] = v: an existing key keeps its place, a new key goes last
DictSet(d, k, v) ==
    IF k \in DictKeys(d)
      THEN [i \in DOMAIN d |-> IF d[i][1] = k THEN <<k, v>> ELSE d[i]]
      ELSE Append(d, <<k, v>>)

\* d.pop(k) / {x: y for x, y in d.items() if x != k}
DictPop(d, k) == SelectSeq(d, LAMBDA item : item[1] # k)

\* the field names in use, in the order sort_keys puts them
FieldOrder ==
    <<"batch_no", "dosage", "expiry_date", "medicine_id", "mfg_date",
      "seller_id", "signature">>

\* json.dumps without sort_keys: the items in insertion order
canonical_json_insertion_order(data) == [json |-> data]

\* canonical_json: json.dumps(data, sort_keys=True, separators=(',', ':')):
\* the items in the order of their keys, nothing between them
canonical_json(data) ==
    LET keys == SelectSeq(FieldOrder, LAMBDA k : k \in DictKeys(data))
    IN  [json |-> [i \in DOMAIN keys |-> <<keys[i], DictGet(data, keys[i])>>]]

\* hash_payload: SHA-256 of the text, taken as collision-free
hash_payload(payload) == [sha256 |-> payload]

\* private_key.sign(payload_hash, ECDSA(SHA256)): the signature names the
\* key that made it and what it was made over; ECDSA draws a nonce, so two
\* signatures of one hash differ
ecdsa_sign(private_key, payload_hash, nonce) ==
    [signer |-> private_key, digest |-> payload_hash, nonce |-> nonce]

b64encode(bytes) == [b64 |-> bytes]

\* get_public_key_pem of key pair k
get_public_key_pem(k) == [pem |-> k]

\* sign_payload, lines 127-150
sign_payload(private_key, payload_data, nonce) ==
    b64encode(ecdsa_sign(private_key,
                         hash_payload(canonical_json(payload_data)), nonce))

\* verify_signature handing the canonical text, not its hash, to
\* public_key.verify
verify_signature_unhashed(payload_data, signature, public_key_pem) ==
    IF "pem" \notin DOMAIN public_key_pem THEN FALSE
    ELSE IF "b64" \notin DOMAIN signature THEN FALSE
    ELSE /\ signature.b64.signer = public_key_pem.pem
         /\ signature.b64.digest = canonical_json(payload_data)

\* verify_signature testing the signing key only, whatever was signed
verify_signature_any_digest(payload_data, signature, public_key_pem) ==
    IF "pem" \notin DOMAIN public_key_pem THEN FALSE
    ELSE IF "b64" \notin DOMAIN signature THEN FALSE
    ELSE signature.b64.signer = public_key_pem.pem

\* verify_signature testing the signed hash only, whoever signed it
verify_signature_any_key(payload_data, signature, public_key_pem) ==
    IF "pem" \notin DOMAIN public_key_pem THEN FALSE
    ELSE IF "b64" \notin DOMAIN signature THEN FALSE
    ELSE signature.b64.digest = hash_payload(canonical_json(payload_data))

\* QRCodeSigner.verify_signature, lines 152-183: loading the key, decoding
\* the signature and public_key.verify raise on failure; every exception
\* is caught and answered False
verify_signature(payload_data, signature, public_key_pem) ==
    IF "pem" \notin DOMAIN public_key_pem THEN FALSE
    ELSE IF "b64" \notin DOMAIN signature THEN FALSE
    ELSE /\ signature.b64.signer = public_key_pem.pem
         /\ signature.b64.digest = hash_payload(canonical_json(payload_data))

\* create_qr_payload, lines 185-198: the five named fields, then **kwargs
create_qr_payload(medicine_id, batch_no, mfg_date, expiry_date, seller_id, kwargs) ==
    <<<<"medicine_id", medicine_id>>, <<"batch_no", batch_no>>,
      <<"mfg_date", mfg_date>>, <<"expiry_date", expiry_date>>,
      <<"seller_id", seller_id>>>> \o kwargs

\* sign_qr_code, lines 200-222: payload['signature'] = sign_payload(payload)
sign_qr_code(private_key, medicine_id, batch_no, mfg_date, expiry_date, seller_id, kwargs, nonce) ==
    DictSet(create_qr_payload(medicine_id, batch_no, mfg_date, expiry_date,
                              seller_id, kwargs),
            "signature",
            sign_payload(private_key,
                         create_qr_payload(medicine_id, batch_no, mfg_date,
                                           expiry_date, seller_id, kwargs),
                         nonce))

Vals == {Str(1), Str(2)}
Nonces == {1, 2}
PayloadKeys == {"batch_no", "medicine_id", "seller_id"}

\* the dicts handed to sign_payload: up to MaxFields items with distinct
\* keys, in any insertion order
Payloads ==
    UNION {{d \in [1..n -> PayloadKeys \X Vals] :
               \A i, j \in 1..n : d[i][1] = d[j][1] => i = j} :
           n \in 1..MaxFields}

\* the extra keyword arguments of sign_qr_code: none, or one extra field
Kwargs ==
    {<<>>} \cup {<<<<k, v>>>> : k \in {"dosage", "signature"}, v \in Vals}

OtherSignerVars ==
    <<sellers, revoked_keys, key_files, next_key, medicines, qr_codes,
      scan_logs, reqs, last, workers>>

\* A verification changes nothing of the signer or of what was signed: its
\* arguments and its answer are recorded and the run ends with it.
VerifyOps == {"verify_signature", "verify_qr_signature"}

\* QRCodeSigner.__init__ without a key file, and generate_key_pair: a new
\* key pair replaces the object's
GenerateKeyPair ==
    /\ signer.op \notin VerifyOps
    /\ signer.made < MaxKeys
    /\ signer' = [signer EXCEPT !.private_key = signer.made + 1,
                                !.made = signer.made + 1,
                                !.op = "generate_key_pair"]
    /\ UNCHANGED OtherSignerVars

Signed(op, payload, kwargs, signature) ==
    signer' = [NoSigner EXCEPT !.private_key = signer.private_key,
                               !.made = signer.made,
                               !.op = op,
                               !.payload = payload,
                               !.kwargs = kwargs,
                               !.signature = signature,
                               !.sign_key = signer.private_key]

SignPayload(payload_data, nonce) ==
    /\ signer.op \notin VerifyOps
    /\ signer.private_key # 0
    /\ Signed("sign_payload", payload_data, <<>>,
              sign_payload(signer.private_key, payload_data, nonce))
    /\ UNCHANGED OtherSignerVars

SignQrCode(medicine_id, batch_no, kwargs, nonce) ==
    /\ signer.op \notin VerifyOps
    /\ signer.private_key # 0
    /\ LET qr_data == sign_qr_code(signer.private_key, medicine_id, batch_no,
                                   Str(1), Str(2), Str(1), kwargs, nonce)
       IN  Signed("sign_qr_code", qr_data, kwargs,
                  DictGet(qr_data, "signature"))
    /\ UNCHANGED OtherSignerVars

\* what a verifier may be handed for a signed payload: the payload as it
\* was signed, the payload without its 'signature' item, one with a value
\* changed, an item removed or an item added, or its items in reverse
Reverse(d) == [i \in DOMAIN d |-> d[Len(d) + 1 - i]]

VerifyPayloads ==
    LET p == DictPop(signer.payload, "signature")
    IN  {signer.payload, p, Reverse(p), DictSet(p, "dosage", Str(2))}
        \cup {DictSet(p, k, v) : k \in DictKeys(p), v \in Vals}
        \cup {DictPop(p, k) : k \in DictKeys(p)}

VerifySignatures == {signer.signature, Malformed}

VerifyKeys == {get_public_key_pem(k) : k \in KeyIds} \cup {Malformed}

Verified(op, payload_data, signature, public_key_pem) ==
    /\ signer.op \notin VerifyOps
    /\ signer.sign_key # 0
    /\ signer' = [signer EXCEPT
                    !.op = op,
                    !.v_payload = payload_data,
                    !.v_signature = signature,
                    !.v_pem = public_key_pem,
                    !.result = verify_signature(payload_data, signature,
                                                public_key_pem)]
    /\ UNCHANGED OtherSignerVars

VerifySignature(payload_data, signature, public_key_pem) ==
    Verified("verify_signature", payload_data, signature, public_key_pem)

\* the standalone verify_qr_signature, lines 231-236: a new QRCodeSigner
\* whose own keys play no part, then verify_signature
VerifyQrSignature(payload_data, signature, public_key_pem) ==
    Verified("verify_qr_signature", payload_data, signature, public_key_pem)

Signing ==
    \/ GenerateKeyPair
    \/ \E payload_data \in Payloads, nonce \in Nonces :
           SignPayload(payload_data, nonce)
    \/ \E medicine_id \in Vals, batch_no \in Vals, kwargs \in Kwargs,
          nonce \in Nonces :
           SignQrCode(medicine_id, batch_no, kwargs, nonce)
    \/ \E payload_data \in VerifyPayloads, signature \in VerifySignatures,
          public_key_pem \in VerifyKeys :
           \/ VerifySignature(payload_data, signature, public_key_pem)
           \/ VerifyQrSignature(payload_data, signature, public_key_pem)

\* The signer on its own: key pairs generated, payloads signed and handed
\* to the verifiers.
InitSigner ==
    /\ InitTables
    /\ sellers = <<>>
    /\ workers = 1

NextSigner == Signing

SpecSigner == InitSigner /\ [][NextSigner]_vars

(* ------------------------------ claims --------------------------------- *)
\* the last answer is a scan's and nothing has run since: the tables are
\* the ones the scan read
Scanned ==
    /\ last.op = "scan_qr"
    /\ InFlight = {}
    /\ last.qr.kind = "object"

\* the scanned payload carries a signature and names a seller that has a
\* public key on record
ScannedKeyed ==
    /\ Scanned
    /\ last.qr.signature.key # 0
    /\ Seller_get_by_id(last.qr.seller_id) # NoRow
    /\ Seller_get_by_id(last.qr.seller_id).public_key # NoKey

ScannedKey == Seller_get_by_id(last.qr.seller_id).public_key

ScannedMedicine == Medicine_get_by_id(last.qr.medicine_id)

\* C1: when the public key on record for the seller named in a scanned
\* payload is in the revocation registry, the scan answers 'revoked',
\* whatever the signature and whatever the state of the medicine.
C1_RevocationPrecedence ==
    (ScannedKeyed /\ is_revoked(ScannedKey)) => last.result = "revoked"

\* C2: the credential issue_qr returned, scanned unchanged while the seller
\* is approved with an unrevoked key and its medicine is catalog-approved
\* and not expired, is classified 'verified'.
C2_IssueThenVerify ==
    \A q \in DOMAIN qr_codes :
        ( /\ Scanned
          /\ last.qr = qr_codes[q].payload
          /\ Seller_get_by_id(last.qr.seller_id).status = "approved"
          /\ ScannedKey # NoKey
          /\ ~is_revoked(ScannedKey)
          /\ ScannedMedicine.seller_id = last.qr.seller_id
          /\ ScannedMedicine.approval_status = "approved"
          /\ ~ScannedMedicine.expired )
        => (last.result = "verified" /\ last.verified)

\* C5: every invocation of scan_qr appends exactly one entry to the scan
\* log, whatever its outcome.
C5_EveryScanLogged ==
    [][ ( /\ last'.op = "scan_qr"
          /\ (last' # last \/ scan_logs' # scan_logs) )
        => Len(scan_logs') = Len(scan_logs) + 1 ]_vars

\* C6: when the issuer's key is not revoked and the signature does not
\* verify, the scan answers 'counterfeit', whatever the medicine.
C6_CounterfeitIsFinal ==
    ( /\ ScannedKeyed
      /\ ~is_revoked(ScannedKey)
      /\ ~verify_qr_signature(last.qr, last.qr.signature, ScannedKey) )
    => last.result = "counterfeit"

\* C7: with an unrevoked key, a valid signature and an existing medicine
\* whose catalog approval is not 'approved', scan_qr answers 'unverified'
\* with verified = false; verify_qr_by_id answers the same for a credential
\* of such a medicine.
C7_UnverifiedCatalogEntry ==
    /\ ( /\ ScannedKeyed
          /\ ~is_revoked(ScannedKey)
          /\ verify_qr_signature(last.qr, last.qr.signature, ScannedKey)
          /\ ScannedMedicine # NoMedicine
          /\ ScannedMedicine.approval_status # "approved" )
        => (last.code = 200 /\ last.result = "unverified" /\ ~last.verified)
    /\ ( /\ last.op = "verify_qr_by_id"
          /\ InFlight = {}
          /\ last.sid \in DOMAIN qr_codes
          /\ Medicine_get_by_id(qr_codes[last.sid].medicine_id) # NoMedicine
          /\ Medicine_get_by_id(qr_codes[last.sid].medicine_id).approval_status
                # "approved" )
        => (last.code = 200 /\ last.result = "unverified" /\ ~last.verified)

\* a scan of a validly signed payload for a rejected medicine of a seller
\* whose key is not revoked, answered 'unverified'
C7_Witness ==
    /\ ScannedKeyed
    /\ ~is_revoked(ScannedKey)
    /\ verify_qr_signature(last.qr, last.qr.signature, ScannedKey)
    /\ ScannedMedicine # NoMedicine
    /\ ScannedMedicine.approval_status = "rejected"
    /\ last.result = "unverified"

TransitionOps ==
    {"approve_seller", "reject_seller", "mark_seller_viewed",
     "set_seller_verifying", "request_seller_changes", "revoke_seller"}

\* in this step a transition request on seller sid is answered 200
Succeeds(sid) ==
    \E i \in Slots :
        /\ reqs[i].op \in TransitionOps
        /\ reqs[i].sid = sid
        /\ reqs'[i].op = "idle"
        /\ last'.op = reqs[i].op
        /\ last'.code = 200

\* C3: once a seller is rejected or revoked, no transition request on it
\* succeeds and its status never changes.
C3_TerminalStates ==
    [][ \A sid \in DOMAIN sellers :
          sellers[sid].status \in {"rejected", "revoked"}
          => (sellers'[sid].status = sellers[sid].status /\ ~Succeeds(sid)) ]_vars

\* C4: of two approve requests on one seller that run concurrently only
\* one reports success: no approve is answered 200 when its update finds
\* the seller already approved by the other.
C4_NoDoubleApprove ==
    [][ \A i \in Slots :
          ( /\ reqs[i].op = "approve_seller"
            /\ reqs'[i].op = "idle"
            /\ last'.op = "approve_seller"
            /\ last'.code = 200 )
          => sellers[reqs[i].sid].status # "approved" ]_vars

\* C8: in every reachable state a revoked seller with a public key on
\* record has that key in the revocation registry.
C8_RevokedKeyInRegistry ==
    \A sid \in DOMAIN sellers :
        (sellers[sid].status = "revoked" /\ sellers[sid].public_key # NoKey)
        => is_revoked(sellers[sid].public_key)

\* C9: a seller becomes revoked only from approved; a revoke request on a
\* seller in any other state changes neither the status nor the registry.
C9_RevokeOnlyFromApproved ==
    [][ /\ \A sid \in DOMAIN sellers :
             (sellers'[sid].status = "revoked" /\ sellers[sid].status # "revoked")
             => sellers[sid].status = "approved"
        /\ \A i \in Slots :
             (reqs[i].op = "revoke_seller" /\ reqs[i].pc = 2
              /\ revoked_keys' # revoked_keys)
             => sellers[reqs[i].sid].status = "approved" ]_vars

C11_KeyImpliesApprovedOrRevoked ==
    \A sid \in DOMAIN sellers :
        sellers[sid].public_key # NoKey
        => sellers[sid].status \in {"approved", "revoked"}

\* C12: a seller's recorded key is never replaced by another while the old
\* one stays out of the revocation registry: a key generation for a seller
\* that already has a key leaves the key as it is or supersedes the old key
\* by registering it as revoked.
C12_OneActiveKey ==
    [][ \A sid \in DOMAIN sellers :
          ( /\ sellers[sid].public_key # NoKey
            /\ sellers'[sid].public_key # sellers[sid].public_key )
          => \E r \in DOMAIN revoked_keys' :
                 revoked_keys'[r] = sellers[sid].public_key ]_vars

\* C13: issue_qr succeeds only for a seller that has a key pair, and every
\* stored credential record carries a signature.
C13_NoUnsignedCredential ==
    /\ (last.op = "issue_qr" /\ last.code = 201 /\ InFlight = {})
        => Seller_get_by_id(last.sid).public_key # NoKey
    /\ \A q \in DOMAIN qr_codes : qr_codes[q].signature # NoSig

\* the scan's payload is validly signed with the seller's unrevoked key
ScannedValid ==
    /\ ScannedKeyed
    /\ ~is_revoked(ScannedKey)
    /\ verify_qr_signature(last.qr, last.qr.signature, ScannedKey)

\* C14: with an unrevoked key, a valid signature and an existing,
\* catalog-approved medicine whose expiry date has passed, the scan answers
\* 'expired' and not 'verified'.
C14_ExpiredMedicine ==
    ( /\ ScannedValid
      /\ ScannedMedicine # NoMedicine
      /\ ScannedMedicine.approval_status = "approved"
      /\ ScannedMedicine.expired )
    => (last.result = "expired" /\ ~last.verified)

\* C15: with an unrevoked key and a valid signature, a payload that names
\* no medicine or a medicine that does not exist is answered as an unknown
\* subject and not 'verified'.
C15_UnknownSubject ==
    (ScannedValid /\ ScannedMedicine = NoMedicine)
    => (last.result = "unknown_subject" /\ ~last.verified)

Approvable == {"pending", "viewed", "verifying"}

\* C16: approve succeeds only from pending, viewed or verifying; from any
\* other status it is refused and the status stays as it was.
C16_ApproveOnlyFromReviewStates ==
    [][ /\ \A i \in Slots :
             ( /\ reqs[i].op = "approve_seller"
               /\ reqs'[i].op = "idle"
               /\ last'.op = "approve_seller"
               /\ last'.code = 200 )
             => sellers[reqs[i].sid].status \in Approvable
        /\ \A sid \in DOMAIN sellers :
             ( /\ sellers'[sid].status = "approved"
               /\ sellers[sid].status # "approved" )
             => sellers[sid].status \in Approvable ]_vars

\* C18: the revocation registry holds at most one entry for a key, however
\* often the key is revoked.
C18_RegistryIdempotent ==
    \A i, j \in DOMAIN revoked_keys :
        revoked_keys[i] = revoked_keys[j] => i = j

\* in this step an approve request on seller sid is answered by its checks
ApproveRefused(sid) ==
    /\ reqs' = reqs
    /\ last' # last
    /\ last'.op = "approve_seller"
    /\ last'.sid = sid

\* C17: two approve calls in sequence on one seller with nothing in
\* between: the first, made from pending, viewed or verifying, is carried
\* out and answered 200 with the status approved; the second is answered
\* 400 'already approved' and the status stays approved.
C17_DoubleApproveRejected ==
    [][ /\ \A sid \in DOMAIN sellers :
             (InFlight = {} /\ sellers[sid].status \in Approvable)
             => ~ApproveRefused(sid)
        /\ \A i \in Slots :
             ( /\ reqs[i].op = "approve_seller"
               /\ reqs'[i].op = "idle"
               /\ last'.code # 500 )
             => ( /\ last' = Resp("approve_seller", reqs[i].sid, 200)
                  /\ sellers'[reqs[i].sid].status = "approved" )
        /\ (last.op = "approve_seller" /\ last.code = 200 /\ InFlight = {})
           => ( /\ sellers[last.sid].status = "approved"
                /\ \A i \in Slots :
                     ~( /\ reqs'[i].op = "approve_seller"
                        /\ reqs'[i].sid = last.sid )
                /\ ApproveRefused(last.sid)
                   => (last'.code = 400 /\ sellers' = sellers) ) ]_vars

\* the second of two approve calls was answered 400 and the seller is
\* approved
C17_Witness ==
    /\ last = Resp("approve_seller", last.sid, 400)
    /\ InFlight = {}
    /\ last.sid \in DOMAIN sellers
    /\ sellers[last.sid].status = "approved"
    /\ sellers[last.sid].public_key = NoKey

\* the scanned payload carries a signature made with a key that is in the
\* revocation registry
ScannedWithRevokedKey ==
    /\ Scanned
    /\ last.qr.signature.key \in KeyIds
    /\ is_revoked(last.qr.signature.key)

\* C19: a key that is in the revocation registry stays in it through every
\* later operation, and no scan of a payload signed with a key that is in
\* the registry answers 'verified'.
C19_RevocationPermanent ==
    [][ /\ \A k \in KeyIds :
             is_revoked(k)
             => \E r \in DOMAIN revoked_keys' : revoked_keys'[r] = k
        /\ (ScannedWithRevokedKey => (last.result # "verified" /\ ~last.verified))'
      ]_vars

\* a seller revoked and approved again, a payload validly signed with its
\* revoked key and naming its approved medicine, answered 'revoked'
C19_Witness ==
    /\ ScannedWithRevokedKey
    /\ ScannedKeyed
    /\ verify_qr_signature(last.qr, last.qr.signature, ScannedKey)
    /\ Seller_get_by_id(last.qr.seller_id).status = "approved"
    /\ ScannedMedicine.approval_status = "approved"
    /\ last.result = "revoked"

\* a verifier was handed what the signer produced: the signature, the
\* public key of the pair that made it, and the signed payload (the output
\* of sign_qr_code with its 'signature' item removed)
RoundTrip ==
    /\ signer.op \in VerifyOps
    /\ signer.v_signature = signer.signature
    /\ signer.v_pem = get_public_key_pem(signer.sign_key)
    /\ signer.v_payload = DictPop(signer.payload, "signature")

DictItems(d) == {d[i] : i \in DOMAIN d}

\* the dict that the last signing operation handed to sign_payload:
\* sign_qr_code signs its payload before it sets the 'signature' item
SignedPayload ==
    IF "signature" \in DictKeys(signer.kwargs)
    THEN DictSet(signer.payload, "signature",
                 DictGet(signer.kwargs, "signature"))
    ELSE DictPop(signer.payload, "signature")

\* a verifier was handed the signature the signer made and the public key
\* of the pair that made it
VerifiedUnderSigningKey ==
    /\ signer.op \in VerifyOps
    /\ signer.v_signature = signer.signature
    /\ signer.v_pem = get_public_key_pem(signer.sign_key)

\* C21: a payload that differs from the signed payload in at least one
\* field (a value changed, a field removed, a field added) does not verify
\* against the signed payload's signature under the signing pair's public
\* key.
C21_TamperDetection ==
    (VerifiedUnderSigningKey
     /\ DictItems(signer.v_payload) # DictItems(SignedPayload))
    => signer.result = FALSE

\* the signed payload with a field appended was handed to the verifier
\* and refused
C21_Witness ==
    /\ VerifiedUnderSigningKey
    /\ DictItems(SignedPayload) \subseteq DictItems(signer.v_payload)
    /\ DictItems(signer.v_payload) # DictItems(SignedPayload)
    /\ signer.result = FALSE

\* C22: a signature made with one pair's private key does not verify under
\* the public key of another pair, whatever payload is presented.
C22_WrongKeyRejected ==
    \A k \in KeyIds :
        (/\ signer.op \in VerifyOps
         /\ signer.v_signature = signer.signature
         /\ k # signer.sign_key
         /\ signer.v_pem = get_public_key_pem(k))
        => signer.result = FALSE

\* the signed payload itself, with its signature, under the public key of
\* a second generated pair: refused
C22_Witness ==
    /\ signer.op \in VerifyOps
    /\ signer.v_signature = signer.signature
    /\ DictItems(signer.v_payload) = DictItems(SignedPayload)
    /\ signer.made = 2
    /\ \E k \in 1..signer.made :
           k # signer.sign_key /\ signer.v_pem = get_public_key_pem(k)
    /\ signer.result = FALSE

RECURSIVE Orderings(_)
\* every insertion order of a set of items
Orderings(items) ==
    IF items = {} THEN {<<>>}
    ELSE UNION {{<<x>> \o d : d \in Orderings(items \ {x})} : x \in items}

\* the place of a key in the sorted order of the field names
KeyRank(k) == CHOOSE i \in DOMAIN FieldOrder : FieldOrder[i] = k

\* the canonical text that the last signing operation hashed
SignedText == signer.signature.b64.digest.sha256

SignOps == {"sign_payload", "sign_qr_code"}

\* C23: the canonical text that a signing operation hashed has its keys in
\* sorted order, and canonical_json of every insertion order of the same
\* items is that same text.
C23_CanonicalOrderInvariant ==
    signer.op \in SignOps
    => /\ \A i, j \in DOMAIN SignedText.json :
              i < j => KeyRank(SignedText.json[i][1])
                          < KeyRank(SignedText.json[j][1])
       /\ \A d \in Orderings(DictItems(SignedPayload)) :
              canonical_json(d) = SignedText

\* sign_payload was handed a dict whose insertion order is not the sorted
\* order of its keys
C23_Witness ==
    /\ signer.op = "sign_payload"
    /\ Len(signer.payload) = 2
    /\ KeyRank(signer.payload[1][1]) > KeyRank(signer.payload[2][1])
    /\ SignedText.json = Reverse(signer.payload)

\* C24: for a malformed signature encoding or a malformed public-key
\* encoding the verifier's answer differs from the false it gives for a
\* well-formed signature that does not match.
C24_MalformedDistinguished ==
    (/\ signer.op \in VerifyOps
     /\ (signer.v_signature = Malformed \/ signer.v_pem = Malformed))
    => signer.result # FALSE

\* C25: once a private key has been stored for a seller, no operation
\* replaces the stored private key.
C25_PrivateKeyWriteOnce ==
    [][\A sid \in SellerIds :
          key_files[sid] # NoKey => key_files'[sid] = key_files[sid]]_vars

\* a request of user u that passed the checks of apply_kyc is at its INSERT
Resubmits(u) ==
    /\ \E i \in Slots :
           /\ reqs[i].op = "apply_kyc"
           /\ reqs[i].user = u
           /\ reqs'[i] = Idle
    /\ \E sid \in Seller_get_by_user_id(u) :
           sellers[sid].status = "changes_required"

\* C26: when a user whose seller application is in changes_required
\* resubmits, the user afterwards has exactly one seller record, its status
\* is pending, and every lookup of the user's seller returns it.
C26_ResubmissionReusesRecord ==
    [][\A u \in Users :
          Resubmits(u)
          => /\ Cardinality(Seller_get_by_user_id(u)') = 1
             /\ \A sid \in Seller_get_by_user_id(u)' :
                    sellers'[sid].status = "pending"]_vars

\* request i, running handler op, executes its UPDATE of the status
WritesStatus(i, op) ==
    /\ reqs[i].op = op
    /\ reqs'[i] = Idle

\* C27: in every execution, with admin requests on the same seller
\* interleaving between a handler's read and its write, the status just
\* before a write of 'viewed' is pending and just before a write of
\* 'verifying' is pending or viewed.
C27_ViewedVerifyingSources ==
    [][\A i \in Slots :
          /\ WritesStatus(i, "mark_seller_viewed")
             => sellers[reqs[i].sid].status = "pending"
          /\ WritesStatus(i, "set_seller_verifying")
             => sellers[reqs[i].sid].status \in {"pending", "viewed"}]_vars

\* the status of seller sid becomes changes_required in this step
BecomesChangesRequired(sid) ==
    /\ sid \in DOMAIN sellers
    /\ sellers[sid].status # "changes_required"
    /\ sellers'[sid].status = "changes_required"

\* C28: a request-changes request with absent or empty remarks goes no
\* further than its check and leaves every seller's status as it was; a
\* status becomes changes_required only by the write of a request-changes
\* request that carried non-empty remarks.
C28_RemarksRequired ==
    [][/\ \A i \in Slots :
             reqs'[i].op = "request_seller_changes" => reqs'[i].remarks
       /\ (/\ last' # last
           /\ last'.op = "request_seller_changes"
           /\ last'.code = 400)
          => sellers' = sellers
       /\ \A sid \in SellerIds :
             BecomesChangesRequired(sid)
             => \E i \in Slots :
                    /\ WritesStatus(i, "request_seller_changes")
                    /\ reqs[i].sid = sid
                    /\ reqs[i].remarks]_vars

\* one seller is in changes_required; a request without remarks on
\* another, pending, seller was refused and left it pending
C28_Witness ==
    /\ last.op = "request_seller_changes"
    /\ last.code = 400
    /\ last.sid \in DOMAIN sellers
    /\ sellers[last.sid].status = "pending"
    /\ \E sid \in DOMAIN sellers : sellers[sid].status = "changes_required"

\* C29: a scan answers 'verified' only when the medicine the payload
\* references belongs to the seller the payload names, whose public key
\* verified the signature.
C29_VerifiedMedicineOwnedBySigner ==
    (/\ Scanned
     /\ last.result = "verified"
     /\ ScannedMedicine # NoMedicine)
    => ScannedMedicine.seller_id = last.qr.seller_id

\* the seller that issued credential qr_id: the owner of its medicine, as
\* verify_qr_by_id looks it up
Issuer(qr_id) ==
    Seller_get_by_id(Medicine_get_by_id(qr_codes[qr_id].medicine_id).seller_id)

\* C30: when the credential record is revoked, or the public key of the
\* seller that issued it is in the revocation registry, verification by
\* credential id does not answer 'verified' and appends no 'verified' entry
\* to the scan log.
C30_RevokedCredentialNotVerified ==
    [][\A qr_id \in DOMAIN qr_codes :
          (/\ last'.op = "verify_qr_by_id"
           /\ last'.sid = qr_id
           /\ (last' # last \/ scan_logs' # scan_logs)
           /\ (qr_codes[qr_id].revoked
               \/ is_revoked(Issuer(qr_id).public_key)))
          => /\ last'.result # "verified"
             /\ scan_logs' = scan_logs]_vars

====
